---- MODULE Spec2Model ----
(***************************************************************************)
(* Model of alvinycheung/audio-normalizer: the normalizer                  *)
(* (src/normalize_audio.py) and the verifier (src/verify_audio.py).        *)
(*                                                                         *)
(* Strings are sequences of one-character strings, so that endswith,       *)
(* lower, find/rfind, split and slicing are computed as Python computes    *)
(* them.  Loudness values are fixed-point integers in tenths of a unit     *)
(* (-16.0 LUFS is -160).  The diagnostic stream of the external tool is a  *)
(* sequence of tokens: "{", "}", NL (a line feed), "t" (one character of   *)
(* free text) and member tokens, each standing for one "key" : "value"     *)
(* member of the JSON object the loudnorm filter prints.                   *)
(***************************************************************************)
EXTENDS Integers, Sequences, FiniteSets, TLC

VARIABLES
    \* ---- the file system and the command line (both programs)
    fs_src,          \* files under mp3s/, as [dir, name]
    fs_out,          \* files under normalized/, as [dir, name]
    src_exists,      \* mp3s/ exists
    out_exists,      \* normalized/ exists
    argv,            \* sys.argv[1:], a sequence of strings
    program,         \* sys.argv[0]: the script that is run
    run,             \* number of the current run of the program
    \* ---- control state of main (both programs)
    pc,              \* position in main
    exit_status,     \* -1 while running, else the process exit status
    crash_at,        \* "none", or the source line an exception escaped from
    audio_files,     \* the list the file loop iterates over
    idx,             \* index of the file being processed (enumerate, from 1)
    loudness_data,   \* result of the analysis pass for the current file
    \* ---- normalizer
    successful, failed, skipped,
    last_cmd,        \* the last apply-pass command line built
    calls,           \* subprocess invocations of this run: [file, pass]
    outcome,         \* classification of each file in this run
    prev_outcome,    \* classification of each file in the previous run
    left_output,     \* files whose failed apply pass left a file at the output path
    outs_at_start,   \* the files under normalized/ when this run started
    \* ---- verifier
    check_source, source_files,
    compliant_files, non_compliant_files, failed_files,
    printed,         \* summary statements emitted
    \* ---- pure functions under test
    text, extracted, parsed,          \* JSON-block extraction
    rec, verdict                      \* compliance check

fsVars   == <<fs_src, fs_out, src_exists, out_exists, argv, program>>
ctlVars  == <<pc, exit_status, crash_at, audio_files, idx, loudness_data>>
normRun  == <<successful, failed, skipped, last_cmd, calls, outcome,
              prev_outcome, left_output>>
normVars == <<normRun, outs_at_start>>
verVars  == <<check_source, source_files, compliant_files,
              non_compliant_files, failed_files, printed>>
exVars   == <<text, extracted, parsed>>
compVars == <<rec, verdict>>
vars     == <<fsVars, run, ctlVars, normVars, verVars, exVars, compVars>>

----------------------------------------------------------------------------
(* Bounds of the model *)

\* number of successive runs of the normalizer
MaxRuns == 2
\* most files in the source tree
MaxFiles == 2
\* longest diagnostic text (in tokens) of the extraction specification
MaxLen == 6
\* margin, in tenths, of the grid of loudness and peak values beyond the
\* tolerance band and the ceiling
GridHalf == 3

----------------------------------------------------------------------------
(* Python values *)

\* None
None == [tag |-> "None"]
\* a dict, as the set of its items <<key, value>> (one per key)
Dict(items) == [tag |-> "dict", items |-> items]
\* a str holding a decimal number (tenths), or a str float() rejects
NumStr(n) == [tag |-> "str", num |-> TRUE, n |-> n]
BadStr == [tag |-> "str", num |-> FALSE, n |-> 0]
\* outcome of a call: a value, or an exception raised
Ok(v) == [tag |-> "ok", v |-> v]
Raise(e) == [tag |-> "raise", v |-> e]

----------------------------------------------------------------------------
(* Strings *)

NL == "\n"

\* str.lower, on the letters the model's names use
LowerChar(c) ==
    CASE c = "M" -> "m"
      [] c = "P" -> "p"
      [] c = "X" -> "x"
      [] OTHER -> c
Lower(s) == [k \in 1..Len(s) |-> LowerChar(s[k])]

\* str.endswith
EndsWith(s, suf) ==
    /\ Len(suf) <= Len(s)
    /\ SubSeq(s, Len(s) - Len(suf) + 1, Len(s)) = suf

\* c in s
Contains(s, c) == \E k \in 1..Len(s) : s[k] = c

\* str.find / str.rfind of one character: 0-based index, -1 when absent
Find(s, c) ==
    IF Contains(s, c)
    THEN (CHOOSE k \in 1..Len(s) : s[k] = c /\ \A j \in 1..(k-1) : s[j] # c) - 1
    ELSE -1
RFind(s, c) ==
    IF Contains(s, c)
    THEN (CHOOSE k \in 1..Len(s) : s[k] = c /\ \A j \in (k+1)..Len(s) : s[j] # c) - 1
    ELSE -1

\* s[a:b] for 0 <= a and 0 <= b (empty when b <= a)
Slice(s, a, b) == SubSeq(s, a + 1, IF b > Len(s) THEN Len(s) ELSE b)

\* s.split(c): the pieces between the occurrences of c (always at least one)
RECURSIVE Split(_, _)
Split(s, c) ==
    IF ~Contains(s, c) THEN <<s>>
    ELSE LET k == Find(s, c) + 1
         IN  <<SubSeq(s, 1, k - 1)>> \o Split(SubSeq(s, k + 1, Len(s)), c)

\* c.join(lines)
RECURSIVE Join(_, _)
Join(lines, c) ==
    IF Len(lines) = 0 THEN <<>>
    ELSE IF Len(lines) = 1 THEN lines[1]
    ELSE lines[1] \o <<c>> \o Join(Tail(lines), c)

----------------------------------------------------------------------------
(* Target profile *)

\* -16.0 LUFS, 7.0 LU, -1.0 dBTP, and the verifier's tolerance 0.5, in tenths
TARGET_LUFS == -160
TARGET_LRA == 70
TARGET_TP == -10
LUFS_TOLERANCE == 5

----------------------------------------------------------------------------
(* The diagnostic stream and the JSON object in it *)

\* the members the model's diagnostic texts are made of
MemberTokens ==
    {"i:-16.0", "i:-20.0", "i:N/A", "tp:-1.2", "tp:0.0", "lra:5.0",
     "th:-26.0", "off:0.3"}

MemberKey(tok) ==
    CASE tok \in {"i:-16.0", "i:-20.0", "i:N/A"} -> "input_i"
      [] tok \in {"tp:-1.2", "tp:0.0"} -> "input_tp"
      [] tok = "lra:5.0" -> "input_lra"
      [] tok = "th:-26.0" -> "input_thresh"
      [] tok = "off:0.3" -> "target_offset"

MemberValue(tok) ==
    CASE tok = "i:-16.0" -> NumStr(-160)
      [] tok = "i:-20.0" -> NumStr(-200)
      [] tok = "i:N/A" -> BadStr
      [] tok = "tp:-1.2" -> NumStr(-12)
      [] tok = "tp:0.0" -> NumStr(0)
      [] tok = "lra:5.0" -> NumStr(50)
      [] tok = "th:-26.0" -> NumStr(-260)
      [] tok = "off:0.3" -> NumStr(3)

\* json.loads: the text is whitespace, "{", members and whitespace, "}",
\* whitespace; anything else raises JSONDecodeError.  Of two members with
\* one key the later one is kept.
JsonWellFormed(s) ==
    \E a, b \in 1..Len(s) :
        /\ a < b
        /\ s[a] = "{"
        /\ s[b] = "}"
        /\ \A k \in 1..Len(s) :
            IF k < a \/ k > b THEN s[k] = NL
            ELSE IF k > a /\ k < b THEN s[k] \in MemberTokens \cup {NL}
            ELSE TRUE

JsonItems(s) ==
    { <<MemberKey(s[k]), MemberValue(s[k])>> :
        k \in { j \in 1..Len(s) :
                  /\ s[j] \in MemberTokens
                  /\ \A m \in (j+1)..Len(s) :
                        s[m] \in MemberTokens => MemberKey(s[m]) # MemberKey(s[j]) } }

JsonLoads(s) ==
    IF JsonWellFormed(s) THEN Ok(Dict(JsonItems(s))) ELSE Raise("JSONDecodeError")

\* dict.get(key, default)
Get(d, key, default) ==
    IF \E it \in d.items : it[1] = key
    THEN (CHOOSE it \in d.items : it[1] = key)[2]
    ELSE default

\* float(str)
Float(v) == IF v.num THEN Ok(v.n) ELSE Raise("ValueError")

\* bool(x) of None or a dict: None and the empty dict are falsy
Truthy(x) == x.tag = "dict" /\ x.items # {}

\* The scan of the lines of stderr (for i, line in enumerate(stderr_lines)):
\* json_data collects the lines from the first one holding "{" up to the
\* first one, from there on, holding "}".
RECURSIVE ScanLines(_, _, _, _)
ScanLines(lines, i, started, json_data) ==
    IF i > Len(lines) THEN json_data
    ELSE LET line == lines[i]
             st   == started \/ Contains(line, "{")
             acc  == IF st THEN Append(json_data, line) ELSE json_data
         IN  IF Contains(line, "}") /\ st THEN acc
             ELSE ScanLines(lines, i + 1, st, acc)

JsonData(stderr) == ScanLines(Split(stderr, NL), 1, FALSE, <<>>)

\* json_str[json_str.find('{'):json_str.rfind('}')+1] of the joined lines
\* (faulty variant: the joined lines are parsed untrimmed)
TrimmedMutant(json_str) == json_str
Trimmed(json_str) ==
    Slice(json_str, Find(json_str, "{"), RFind(json_str, "}") + 1)

\* the string handed to json.loads (defined when json_data is not empty)
JsonStr(stderr) == Trimmed(Join(JsonData(stderr), NL))

\* Outcome of the external tool's analysis invocation: it could not be
\* started, or it ran and wrote stderr.
SpawnError == [tag |-> "spawn_error"]
Ran(stderr) == [tag |-> "ran", stderr |-> stderr]

\* analyze_loudness (normalizer): a dict, or None
analyze_loudness(proc) ==
    IF proc.tag = "spawn_error" THEN None
    ELSE IF JsonData(proc.stderr) = <<>> THEN None
    ELSE LET r == JsonLoads(JsonStr(proc.stderr))
         IN  IF r.tag = "raise" THEN None ELSE r.v

\* analyze_file (verifier): {'lufs', 'peak', 'lra'} as floats, or None
Measured(lufs, peak, lra) ==
    [tag |-> "rec", lufs |-> lufs, peak |-> peak, lra |-> lra]

analyze_file(proc) ==
    IF proc.tag = "spawn_error" THEN None
    ELSE IF JsonData(proc.stderr) = <<>> THEN None
    ELSE LET r == JsonLoads(JsonStr(proc.stderr))
         IN  IF r.tag = "raise" THEN None
             ELSE LET l == Float(Get(r.v, "input_i", NumStr(-990)))
                      p == Float(Get(r.v, "input_tp", NumStr(-990)))
                      a == Float(Get(r.v, "input_lra", NumStr(0)))
                  IN  IF l.tag = "raise" \/ p.tag = "raise" \/ a.tag = "raise"
                      THEN None
                      ELSE Measured(l.v, p.v, a.v)

----------------------------------------------------------------------------
(* Compliance check (verifier) *)

Abs(x) == IF x < 0 THEN -x ELSE x

LufsIssue(lufs) == [kind |-> "lufs", value |-> lufs]
PeakIssue(peak) == [kind |-> "peak", value |-> peak]
FailedIssue == [kind |-> "failed to analyze", value |-> 0]

\* (faulty variant: the boundary of the tolerance band counts as outside)
LufsOutOfToleranceMutant(lufs) == Abs(lufs - TARGET_LUFS) >= LUFS_TOLERANCE
LufsOutOfTolerance(lufs) == Abs(lufs - TARGET_LUFS) > LUFS_TOLERANCE

PeakTooHigh(peak) == peak > TARGET_TP

\* check_file_compliance: <<verdict, issues>>
check_file_compliance(data) ==
    IF data = None THEN <<FALSE, <<FailedIssue>>>>
    ELSE LET i1 == IF LufsOutOfTolerance(data.lufs)
                   THEN <<LufsIssue(data.lufs)>> ELSE <<>>
             i2 == IF PeakTooHigh(data.peak)
                   THEN Append(i1, PeakIssue(data.peak)) ELSE i1
         IN  <<Len(i2) = 0, i2>>

----------------------------------------------------------------------------
(* Files and paths *)

DOT_MP3 == <<".", "m", "p", "3">>

\* the extension set of find_audio_files and of the single-file check
audio_extensions ==
    { DOT_MP3,
      <<".", "m", "4", "a">>, <<".", "m", "p", "4">>, <<".", "w", "a", "v">>,
      <<".", "f", "l", "a", "c">>, <<".", "a", "a", "c">>,
      <<".", "o", "g", "g">>, <<".", "w", "m", "a">> }

\* any(s.lower().endswith(ext) for ext in audio_extensions)
HasAudioExtension(s) == \E ext \in audio_extensions : EndsWith(Lower(s), ext)

\* a file of a tree: the directory below the root ("" for the root) and the name
File(dir, name) == [dir |-> dir, name |-> name]

\* the directories the programs work in, as str(Path) gives them
BaseDir == <<"/", "w">>
SourceDir == BaseDir \o <<"/", "m", "p", "3", "s">>
NormalizedDir == BaseDir \o <<"/", "n", "o", "r", "m", "a", "l", "i", "z", "e", "d">>

\* relative_to(root), as a string, and str(Path(root) / file)
RelStr(f) == IF f.dir = <<>> THEN f.name ELSE f.dir \o <<"/">> \o f.name
FullStr(root, f) == root \o <<"/">> \o RelStr(f)

\* os.path.basename
Basename(s) == Slice(s, RFind(s, "/") + 1, Len(s))

\* PurePath.suffix and PurePath.stem of a name
Suffix(name) ==
    LET i == RFind(name, ".")
    IN  IF 0 < i /\ i < Len(name) - 1 THEN Slice(name, i, Len(name)) ELSE <<>>
Stem(name) == Slice(name, 0, Len(name) - Len(Suffix(name)))

\* create_output_path: the same relative path with the suffix replaced
create_output_path(f) == File(f.dir, Stem(f.name) \o DOT_MP3)

\* code points of the characters the model's names use
Ord(c) ==
    CASE c = "." -> 46 [] c = "/" -> 47 [] c = "3" -> 51 [] c = "M" -> 77
      [] c = "P" -> 80 [] c = "X" -> 88 [] c = "a" -> 97 [] c = "b" -> 98
      [] c = "m" -> 109 [] c = "n" -> 110 [] c = "p" -> 112 [] c = "q" -> 113
      [] c = "t" -> 116 [] c = "v" -> 118 [] c = "w" -> 119 [] c = "x" -> 120
      [] c = "z" -> 122

\* str < str
StrLess(s, t) ==
    \E k \in 1..(Len(t)) :
        /\ \A j \in 1..(k-1) : j <= Len(s) /\ s[j] = t[j]
        /\ \/ k = Len(s) + 1
           \/ k <= Len(s) /\ Ord(s[k]) < Ord(t[k])

\* Path < Path: the tuples of parts compared
Parts(f) == IF f.dir = <<>> THEN <<f.name>> ELSE <<f.dir, f.name>>
PathLess(f, g) ==
    LET p == Parts(f)
        q == Parts(g)
    IN  \E k \in 1..Len(q) :
            /\ \A j \in 1..(k-1) : j <= Len(p) /\ p[j] = q[j]
            /\ \/ k = Len(p) + 1
               \/ k <= Len(p) /\ StrLess(p[k], q[k])

\* sorted(paths)
RECURSIVE Sorted(_)
Sorted(S) ==
    IF S = {} THEN <<>>
    ELSE LET least == CHOOSE f \in S : \A g \in S \ {f} : PathLess(f, g)
         IN  <<least>> \o Sorted(S \ {least})

\* find_audio_files
find_audio_files(tree) == Sorted({ f \in tree : HasAudioExtension(f.name) })

\* all orders of a finite set
Perms(S) ==
    { p \in [1..Cardinality(S) -> S] : \A a, b \in 1..Cardinality(S) : p[a] = p[b] => a = b }

\* os.walk(root): the root first, then its subdirectories, each with the
\* list of its files; the order of the subdirectories and of the files of a
\* directory is the order the file system lists them in.
Walks(tree) ==
    LET subdirs    == { f.dir : f \in tree } \ {<<>>}
        n          == Cardinality(subdirs)
        listing(d) == Perms({ f \in tree : f.dir = d })
        listings   == UNION { listing(d) : d \in subdirs \cup {<<>>} }
    IN  { w \in [1..(n + 1) -> listings] :
            /\ w[1] \in listing(<<>>)
            /\ \E order \in Perms(subdirs) :
                  \A k \in 1..n : w[k + 1] \in listing(order[k]) }

\* the match of the single-file search in the source tree
MatchesArgument(root, f, file_path) ==
    \/ f.name = Basename(file_path)
    \/ EndsWith(FullStr(root, f), file_path)

\* the match of the single-file search of the verifier in normalized/
MatchesNormalized(root, f, file_path) ==
    \/ f.name = Stem(Basename(file_path)) \o DOT_MP3
    \/ f.name = Basename(file_path)
    \/ EndsWith(FullStr(root, f), file_path)

\* for file in files: if <match>: append; break
RECURSIVE FirstMatch(_, _, _, _)
FirstMatch(files, k, root, file_path) ==
    IF k > Len(files) THEN <<>>
    ELSE IF MatchesArgument(root, files[k], file_path) THEN <<files[k]>>
    ELSE FirstMatch(files, k + 1, root, file_path)

RECURSIVE FirstNormalizedMatch(_, _, _, _)
FirstNormalizedMatch(files, k, root, file_path) ==
    IF k > Len(files) THEN <<>>
    ELSE IF MatchesNormalized(root, files[k], file_path) THEN <<files[k]>>
    ELSE FirstNormalizedMatch(files, k + 1, root, file_path)

\* for root, dirs, files in os.walk(...): the loop above, per directory
RECURSIVE SearchWalk(_, _, _, _)
SearchWalk(walk, k, root, file_path) ==
    IF k > Len(walk) THEN <<>>
    ELSE FirstMatch(walk[k], 1, root, file_path)
            \o SearchWalk(walk, k + 1, root, file_path)

RECURSIVE SearchNormalizedWalk(_, _, _, _)
SearchNormalizedWalk(walk, k, root, file_path) ==
    IF k > Len(walk) THEN <<>>
    ELSE FirstNormalizedMatch(walk[k], 1, root, file_path)
            \o SearchNormalizedWalk(walk, k + 1, root, file_path)

----------------------------------------------------------------------------
(* Values the variables of a program hold while another one is checked *)

Pending == [tag |-> "pending"]
NoCmd == [tag |-> "none"]

IdleFs ==
    /\ fs_src = {} /\ fs_out = {} /\ src_exists = FALSE /\ out_exists = FALSE
    /\ argv = <<>> /\ program = "none" /\ run = 1
IdleCtl ==
    /\ pc = "idle" /\ exit_status = -1 /\ crash_at = "none"
    /\ audio_files = <<>> /\ idx = 0 /\ loudness_data = None
IdleNorm ==
    /\ successful = 0 /\ failed = 0 /\ skipped = 0
    /\ last_cmd = NoCmd /\ calls = {} /\ outcome = {} /\ prev_outcome = {}
    /\ left_output = {} /\ outs_at_start = {}
IdleVer ==
    /\ check_source = FALSE /\ source_files = <<>>
    /\ compliant_files = 0 /\ non_compliant_files = <<>> /\ failed_files = <<>>
    /\ printed = {}
IdleEx == text = <<>> /\ extracted = Pending /\ parsed = Pending
IdleComp == rec = None /\ verdict = Pending

----------------------------------------------------------------------------
(* Specification of the JSON-block extraction: every diagnostic text of at  *)
(* most MaxLen tokens is handed to analyze_loudness or to analyze_file.     *)

ExtractAlphabet == {"{", "}", NL, "t", "i:-16.0"}

Texts == UNION { [1..n -> ExtractAlphabet] : n \in 0..MaxLen }

\* what the function hands to json.loads: nothing, or the trimmed string
Extracted(stderr) ==
    IF JsonData(stderr) = <<>> THEN [tag |-> "nothing", s |-> <<>>]
    ELSE [tag |-> "str", s |-> JsonStr(stderr)]

InitExtract ==
    /\ text \in Texts
    /\ extracted = Pending /\ parsed = Pending
    /\ IdleFs /\ IdleCtl /\ IdleNorm /\ IdleVer /\ IdleComp

ExtractNormalizer ==
    /\ extracted = Pending
    /\ extracted' = Extracted(text)
    /\ parsed' = [by |-> "analyze_loudness", v |-> analyze_loudness(Ran(text))]
    /\ UNCHANGED <<text, fsVars, run, ctlVars, normVars, verVars, compVars>>

ExtractVerifier ==
    /\ extracted = Pending
    /\ extracted' = Extracted(text)
    /\ parsed' = [by |-> "analyze_file", v |-> analyze_file(Ran(text))]
    /\ UNCHANGED <<text, fsVars, run, ctlVars, normVars, verVars, compVars>>

NextExtract == ExtractNormalizer \/ ExtractVerifier

SpecExtract == InitExtract /\ [][NextExtract]_vars

----------------------------------------------------------------------------
(* Specification of the compliance check: every record of the grid, and    *)
(* None, is handed to check_file_compliance.                               *)

GridLufs == (TARGET_LUFS - LUFS_TOLERANCE - GridHalf) ..
            (TARGET_LUFS + LUFS_TOLERANCE + GridHalf)
GridPeak == (TARGET_TP - GridHalf) .. (TARGET_TP + GridHalf)

InitCompliance ==
    /\ rec \in {None} \cup { Measured(l, p, 0) : l \in GridLufs, p \in GridPeak }
    /\ verdict = Pending
    /\ IdleFs /\ IdleCtl /\ IdleNorm /\ IdleVer /\ IdleEx

CheckCompliance ==
    /\ verdict = Pending
    /\ verdict' = [tag |-> "result",
                   ok |-> check_file_compliance(rec)[1],
                   issues |-> check_file_compliance(rec)[2]]
    /\ UNCHANGED <<rec, fsVars, run, ctlVars, normVars, verVars, exVars>>

NextCompliance == CheckCompliance

SpecCompliance == InitCompliance /\ [][NextCompliance]_vars

----------------------------------------------------------------------------
(* The external tool *)

\* diagnostic texts of the analysis pass: no JSON block, an unterminated
\* block, malformed JSON, an empty object, an object without the measured
\* loudness, one whose loudness is not a number, and complete measurements
StderrNoJson == <<"t", NL, "t">>
StderrUnterminated == <<"t", "{", NL, "i:-16.0">>
StderrMalformed == <<"{", "t", "}">>
StderrEmptyObject == <<"t", "{", "}">>
StderrMissingFields == <<"{", NL, "lra:5.0", NL, "}">>
StderrNotNumeric == <<"t", NL, "{", "i:N/A", "tp:-1.2", "}">>
StderrMeasured(i, tp) ==
    <<"t", NL, "{", NL, i, NL, tp, NL, "lra:5.0", NL, "th:-26.0", NL,
      "off:0.3", NL, "}", NL, "t">>

DegradedStderr ==
    { StderrNoJson, StderrUnterminated, StderrMalformed, StderrEmptyObject,
      StderrMissingFields, StderrNotNumeric }

\* outcomes of subprocess.run for the analysis pass (check=False)
NormalizerAnalysisOutcomes ==
    {SpawnError} \cup { Ran(t) : t \in DegradedStderr \cup {StderrMeasured("i:-20.0", "tp:-1.2")} }

VerifierAnalysisOutcomes ==
    {SpawnError}
      \cup { Ran(t) : t \in DegradedStderr }
      \cup { Ran(StderrMeasured(i, tp)) : i \in {"i:-16.0", "i:-20.0"}, tp \in {"tp:-1.2", "tp:0.0"} }

\* outcomes of subprocess.run for the apply pass (check=True): exit status
\* zero with the output written; a non-zero status (or death by a signal),
\* with or without a file left at the output path; the tool not started
ApplyOutcomes ==
    { [tag |-> "exit", status |-> 0, wrote |-> TRUE],
      [tag |-> "exit", status |-> 1, wrote |-> FALSE],
      [tag |-> "exit", status |-> 1, wrote |-> TRUE],
      [tag |-> "spawn_error", status |-> 0, wrote |-> FALSE] }

----------------------------------------------------------------------------
(* The normalizer: normalize_audio.py *)

\* the command line normalize_audio builds
SinglePassCmd(input_file, output_file) ==
    [tag |-> "cmd", input |-> input_file,
     I |-> TARGET_LUFS, TP |-> TARGET_TP, LRA |-> TARGET_LRA,
     measured |-> <<>>, linear |-> FALSE,
     ar |-> 44100, ba |-> 192, y |-> TRUE, output |-> output_file]

TwoPassCmd(input_file, output_file, data) ==
    [tag |-> "cmd", input |-> input_file,
     I |-> TARGET_LUFS, TP |-> TARGET_TP, LRA |-> TARGET_LRA,
     measured |-> << Get(data, "input_i", NumStr(-990)),
                     Get(data, "input_tp", NumStr(-990)),
                     Get(data, "input_lra", NumStr(0)),
                     Get(data, "input_thresh", NumStr(-990)),
                     Get(data, "target_offset", NumStr(0)) >>,
     linear |-> TRUE,
     ar |-> 44100, ba |-> 192, y |-> TRUE, output |-> output_file]

\* if not loudness_data: ... else: ...
\* (faulty variant: only None selects the fallback)
UseFallbackMutant(data) == data = None
UseFallback(data) == ~Truthy(data)

normalize_cmd(input_file, output_file, data) ==
    IF UseFallback(data) THEN SinglePassCmd(input_file, output_file)
    ELSE TwoPassCmd(input_file, output_file, data)

\* try: subprocess.run(cmd, check=True); return True
\* except subprocess.CalledProcessError: return False
normalize_audio_result(proc) ==
    IF proc.tag = "spawn_error" THEN Raise("OSError")
    ELSE IF proc.status = 0 THEN Ok(TRUE)
    ELSE Ok(FALSE)

\* the output tree after the apply pass: nothing in normalize_audio or in
\* main removes what the tool left at the output path
\* (faulty variant: a failed apply pass has its output removed)
OutputsAfterMutant(outs, output_file, proc) ==
    IF proc.tag = "exit" /\ proc.status = 0 THEN outs \cup {output_file}
    ELSE outs \ {output_file}
OutputsAfter(outs, output_file, proc) ==
    IF proc.wrote THEN outs \cup {output_file} ELSE outs

\* output_file.exists()
\* (faulty variant: the existence check never succeeds)
OutputExistsMutant(outs, output_file) == FALSE
OutputExists(outs, output_file) == output_file \in outs

\* the source trees and arguments of the model
NameXmp3 == <<"x", ".", "m", "p", "3">>
NameXwav == <<"x", ".", "w", "a", "v">>
NameZXmp3 == <<"z", "x", ".", "m", "p", "3">>
NameUpper == <<"X", ".", "M", "P", "3">>
NameText == <<"n", ".", "t", "x", "t">>
NameAbsent == <<"q", ".", "m", "p", "3">>
DirA == <<"a">>
DirB == <<"b">>

SourceCandidates ==
    { File(DirA, NameXmp3), File(DirB, NameXmp3), File(<<>>, NameXwav),
      File(DirA, NameXwav), File(DirA, NameZXmp3), File(DirB, NameUpper),
      File(DirB, NameText) }

Trees(candidates) == { t \in SUBSET candidates : Cardinality(t) <= MaxFiles }

Arguments ==
    { <<>>, <<NameXmp3>>, <<DirA \o <<"/">> \o NameXmp3>>, <<NameXwav>>,
      <<NameText>>, <<NameAbsent>> }

Terminal == {"exit_missing_dir", "exit_bad_extension", "exit_not_found",
             "exit_no_files", "done", "crashed"}

InitNormalizer ==
    /\ fs_src \in Trees(SourceCandidates)
    /\ src_exists \in BOOLEAN
    /\ ~src_exists => fs_src = {}
    /\ fs_out = {} /\ out_exists = FALSE
    /\ argv \in Arguments
    /\ program = "normalize_audio.py"
    /\ run = 1
    /\ pc = "start"
    /\ exit_status = -1 /\ crash_at = "none"
    /\ audio_files = <<>> /\ idx = 0 /\ loudness_data = None
    /\ IdleNorm /\ IdleVer /\ IdleEx /\ IdleComp

\* main, lines 163-211: the directory check, single-file or batch discovery,
\* the empty-list exit, the counters
Exit(where, status) ==
    /\ pc' = where
    /\ exit_status' = status
    /\ UNCHANGED <<crash_at, audio_files, idx, loudness_data>>

EnterLoop(files) ==
    /\ pc' = "loop"
    /\ audio_files' = files
    /\ idx' = 1
    /\ UNCHANGED <<exit_status, crash_at, loudness_data>>

Discover ==
    /\ pc = "start"
    /\ IF ~src_exists THEN Exit("exit_missing_dir", 1)
       ELSE IF Len(argv) > 0
       THEN IF ~HasAudioExtension(argv[1]) THEN Exit("exit_bad_extension", 1)
            ELSE \E walk \in Walks(fs_src) :
                    LET found == SearchWalk(walk, 1, SourceDir, argv[1])
                    IN  IF found = <<>> THEN Exit("exit_not_found", 1)
                        ELSE EnterLoop(found)
       ELSE LET found == find_audio_files(fs_src)
            IN  IF found = <<>> THEN Exit("exit_no_files", 0)
                ELSE EnterLoop(found)
    /\ outs_at_start' = fs_out
    /\ UNCHANGED <<fsVars, run, normRun, verVars, exVars, compVars>>

\* (faulty variant: the loop ends one file early)
AdvanceMutant ==
    IF idx >= Len(audio_files) - 1
    THEN pc' = "summary" /\ idx' = idx
    ELSE pc' = "loop" /\ idx' = idx + 1

\* next file of the loop, or the summary after the last one
Advance ==
    IF idx = Len(audio_files)
    THEN pc' = "summary" /\ idx' = idx
    ELSE pc' = "loop" /\ idx' = idx + 1

\* lines 213-225: the output path already exists
Skip ==
    /\ pc = "loop"
    /\ LET input_file == audio_files[idx]
           output_file == create_output_path(input_file)
       IN  /\ OutputExists(fs_out, output_file)
           /\ skipped' = skipped + 1
           /\ outcome' = outcome \cup {<<input_file, "skipped">>}
           /\ out_exists' = TRUE
    /\ Advance
    /\ UNCHANGED <<fs_src, fs_out, src_exists, argv, program, run, exit_status, crash_at,
                   audio_files, loudness_data, successful, failed, last_cmd,
                   calls, prev_outcome, left_output, outs_at_start, verVars,
                   exVars, compVars>>

\* lines 227-235: the analysis pass, and the report of the measured loudness
Analyze ==
    /\ pc = "loop"
    /\ LET input_file == audio_files[idx]
           output_file == create_output_path(input_file)
       IN  /\ ~OutputExists(fs_out, output_file)
           /\ out_exists' = TRUE
           /\ calls' = calls \cup {[file |-> input_file, pass |-> "analyze"]}
           /\ \E proc \in NormalizerAnalysisOutcomes :
                LET data == analyze_loudness(proc)
                IN  /\ loudness_data' = data
                    /\ IF Truthy(data)
                            /\ Float(Get(data, "input_i", NumStr(-990))).tag = "raise"
                       THEN /\ pc' = "crashed"
                            /\ exit_status' = 1
                            /\ crash_at' = "main:232"
                       ELSE /\ pc' = "normalize"
                            /\ UNCHANGED <<exit_status, crash_at>>
    /\ UNCHANGED <<fs_src, fs_out, src_exists, argv, program, run, audio_files, idx,
                   successful, failed, skipped, last_cmd, outcome, prev_outcome,
                   left_output, outs_at_start, verVars, exVars, compVars>>

\* lines 237-246: the apply pass
Normalize ==
    /\ pc = "normalize"
    /\ LET input_file == audio_files[idx]
           output_file == create_output_path(input_file)
       IN  /\ last_cmd' = normalize_cmd(input_file, output_file, loudness_data)
           /\ calls' = calls \cup {[file |-> input_file, pass |-> "normalize"]}
           /\ \E proc \in ApplyOutcomes :
                LET r == normalize_audio_result(proc)
                IN  /\ fs_out' = OutputsAfter(fs_out, output_file, proc)
                    /\ IF r.tag = "raise"
                       THEN /\ pc' = "crashed"
                            /\ exit_status' = 1
                            /\ crash_at' = "normalize_audio:144"
                            /\ UNCHANGED <<idx, successful, failed, outcome, left_output>>
                       ELSE /\ Advance
                            /\ UNCHANGED <<exit_status, crash_at>>
                            /\ IF r.v
                               THEN /\ successful' = successful + 1
                                    /\ outcome' = outcome \cup {<<input_file, "successful">>}
                                    /\ UNCHANGED <<failed, left_output>>
                               ELSE /\ failed' = failed + 1
                                    /\ outcome' = outcome \cup {<<input_file, "failed">>}
                                    /\ left_output' =
                                          IF proc.wrote THEN left_output \cup {input_file}
                                          ELSE left_output
                                    /\ UNCHANGED successful
    /\ UNCHANGED <<fs_src, src_exists, out_exists, argv, program, run, audio_files,
                   loudness_data, skipped, prev_outcome, outs_at_start, verVars,
                   exVars, compVars>>

\* lines 248-258: the summary; main returns and the process ends with status 0
Summary ==
    /\ pc = "summary"
    /\ pc' = "done"
    /\ exit_status' = 0
    /\ UNCHANGED <<fsVars, run, crash_at, audio_files, idx, loudness_data,
                   normVars, verVars, exVars, compVars>>

\* the program is run again on the same tree with the same argument
Rerun ==
    /\ pc \in Terminal
    /\ run < MaxRuns
    /\ run' = run + 1
    /\ pc' = "start"
    /\ exit_status' = -1 /\ crash_at' = "none"
    /\ audio_files' = <<>> /\ idx' = 0 /\ loudness_data' = None
    /\ successful' = 0 /\ failed' = 0 /\ skipped' = 0
    /\ last_cmd' = NoCmd /\ calls' = {} /\ outcome' = {}
    /\ prev_outcome' = outcome
    /\ UNCHANGED <<fsVars, left_output, outs_at_start, verVars, exVars, compVars>>

Next == Discover \/ Skip \/ Analyze \/ Normalize \/ Summary \/ Rerun

Spec == InitNormalizer /\ [][Next]_vars

----------------------------------------------------------------------------
(* The verifier: verify_audio.py *)

SourceFlag == <<"-", "-", "s", "o", "u", "r", "c", "e">>

\* list.remove(x): the first occurrence goes
RECURSIVE Remove(_, _)
Remove(seq, x) ==
    IF seq = <<>> THEN <<>>
    ELSE IF Head(seq) = x THEN Tail(seq)
    ELSE <<Head(seq)>> \o Remove(Tail(seq), x)

\* x in list
InList(seq, x) == \E k \in 1..Len(seq) : seq[k] = x

VerifierSourceCandidates ==
    { File(DirA, NameXmp3), File(DirB, NameXmp3), File(<<>>, NameXwav) }

NormalizedCandidates ==
    { File(DirA, NameXmp3), File(DirB, NameXmp3), File(<<>>, NameXmp3),
      File(DirB, NameText) }

VerifierArguments ==
    { <<>>, <<SourceFlag>>, <<NameXmp3>>, <<NameXwav>>, <<NameText>>,
      <<NameAbsent>>, <<SourceFlag, NameXmp3>>, <<NameXwav, SourceFlag>> }

InitVerifier ==
    /\ fs_src \in Trees(VerifierSourceCandidates)
    /\ fs_out \in Trees(NormalizedCandidates)
    /\ src_exists \in BOOLEAN
    /\ out_exists \in BOOLEAN
    /\ ~src_exists => fs_src = {}
    /\ ~out_exists => fs_out = {}
    /\ argv \in VerifierArguments
    /\ program = "verify_audio.py"
    /\ run = 1
    /\ pc = "start"
    /\ exit_status = -1 /\ crash_at = "none"
    /\ audio_files = <<>> /\ idx = 0 /\ loudness_data = None
    /\ IdleVer /\ IdleNorm /\ IdleEx /\ IdleComp

\* main, lines 114-198.  audio_files is the list the loop iterates over
\* (normalized_files in the source).
VerifierEnter(files, sources) ==
    IF Len(files) = 0
    THEN /\ Exit("exit_no_files", 0)
         /\ UNCHANGED source_files
    ELSE /\ EnterLoop(files)
         /\ source_files' = sources

VerifierDiscover ==
    /\ pc = "start"
    /\ check_source' = InList(argv, SourceFlag)
    /\ LET args        == IF InList(argv, SourceFlag) THEN Remove(argv, SourceFlag) ELSE argv
           target_tree == IF check_source' THEN fs_src ELSE fs_out
           target_dir  == IF check_source' THEN SourceDir ELSE NormalizedDir
           target_ok   == IF check_source' THEN src_exists ELSE out_exists
       IN  IF ~target_ok
           THEN Exit("exit_missing_dir", 1) /\ UNCHANGED source_files
           ELSE IF Len(args) > 0
           THEN IF ~HasAudioExtension(args[1])
                THEN Exit("exit_bad_extension", 1) /\ UNCHANGED source_files
                ELSE \E walk \in Walks(target_tree) :
                        LET found == IF check_source'
                                     THEN SearchWalk(walk, 1, target_dir, args[1])
                                     ELSE SearchNormalizedWalk(walk, 1, target_dir, args[1])
                        IN  IF found = <<>>
                            THEN Exit("exit_not_found", 1) /\ UNCHANGED source_files
                            ELSE VerifierEnter(found, <<>>)
           ELSE IF check_source'
                THEN VerifierEnter(find_audio_files(fs_src), <<>>)
                ELSE VerifierEnter(find_audio_files(fs_out),
                                   IF src_exists THEN find_audio_files(fs_src) ELSE <<>>)
    /\ UNCHANGED <<fsVars, run, normVars, compliant_files, non_compliant_files,
                   failed_files, printed, exVars, compVars>>

\* lines 200-224: one file of the loop
VerifyFile ==
    /\ pc = "loop"
    /\ \E proc \in VerifierAnalysisOutcomes :
        LET file_path == audio_files[idx]
            data      == analyze_file(proc)
            result    == check_file_compliance(data)
        IN  /\ loudness_data' = data
            /\ IF data = None
               THEN /\ failed_files' = Append(failed_files, file_path)
                    /\ UNCHANGED <<compliant_files, non_compliant_files>>
               ELSE IF result[1]
               THEN /\ compliant_files' = compliant_files + 1
                    /\ UNCHANGED <<failed_files, non_compliant_files>>
               ELSE /\ non_compliant_files' =
                          Append(non_compliant_files, <<file_path, result[2], data>>)
                    /\ UNCHANGED <<failed_files, compliant_files>>
    /\ Advance
    /\ UNCHANGED <<fsVars, run, exit_status, crash_at, audio_files, normVars,
                   check_source, source_files, printed, exVars, compVars>>

\* line 238: if compliant_files == total_checked and total_checked > 0
AllAtTarget(compliant, total, n_failed) ==
    LET total_checked == total - n_failed
    IN  compliant = total_checked /\ total_checked > 0

\* line 258: if compliant_files == len(normalized_files)
AllReady(compliant, total) == compliant = total

\* lines 226-263: the summary; main returns and the process ends with status 0
VerifierSummary ==
    /\ pc = "summary"
    /\ pc' = "done"
    /\ exit_status' = 0
    /\ printed' =
          (IF Len(source_files) > 0 /\ Len(source_files) = Len(audio_files)
           THEN {"File count matches source"}
           ELSE IF Len(source_files) > 0 THEN {"File count mismatch"} ELSE {})
          \cup
          (IF AllAtTarget(compliant_files, Len(audio_files), Len(failed_files))
           THEN {"All files at target loudness"} ELSE {"files compliant"})
          \cup {"Peak levels checked"}
          \cup (IF Len(failed_files) > 0 THEN {"Failed to analyze:"} ELSE {})
          \cup
          (IF AllReady(compliant_files, Len(audio_files))
           THEN {"All files ready for stage performance!"}
           ELSE {"Some files need attention"})
    /\ UNCHANGED <<fsVars, run, crash_at, audio_files, idx, loudness_data,
                   normVars, check_source, source_files, compliant_files,
                   non_compliant_files, failed_files, exVars, compVars>>

NextVerifier == VerifierDiscover \/ VerifyFile \/ VerifierSummary

SpecVerifier == InitVerifier /\ [][NextVerifier]_vars

----------------------------------------------------------------------------
(* Properties *)

\* the file the loop is at, and its mapped output path
CurrentInput == audio_files[idx]
CurrentOutput == create_output_path(audio_files[idx])
CallsFor(f) == { c \in calls : c.file = f }
InLoop(f) == \E k \in 1..Len(audio_files) : audio_files[k] = f

\* C1: in the normalizer's file loop a file whose mapped output path exists
\* when the file is reached is counted as skipped (skipped goes up by one,
\* successful and failed stay) and no subprocess is invoked for it; a run at
\* whose start every output path existed ends with successful = 0,
\* skipped = total, failed = 0.
C1_SkipExistingOutput ==
    /\ [][ (pc = "loop" /\ CurrentOutput \in fs_out)
             => /\ skipped' = skipped + 1
                /\ successful' = successful
                /\ failed' = failed
                /\ calls' = calls
                /\ <<CurrentInput, "skipped">> \in outcome' ]_vars
    /\ [](  (/\ pc = "done"
             /\ \A k \in 1..Len(audio_files) :
                   create_output_path(audio_files[k]) \in outs_at_start)
            => /\ successful = 0
               /\ skipped = Len(audio_files)
               /\ failed = 0
               /\ calls = {} )

\* a second run over two files, both outputs present from the first run
C1_Witness ==
    /\ run = 2 /\ pc = "done"
    /\ Len(audio_files) = 2
    /\ \A k \in 1..2 : create_output_path(audio_files[k]) \in outs_at_start
    /\ skipped = 2 /\ calls = {}

\* C2: in the verifier, on every run in which at least one file failed
\* analysis, the summary emits neither the "All files at target loudness"
\* line nor the "All files ready" headline.
C2_NoAllCompliantAfterFailedAnalysis ==
    (pc = "done" /\ Len(failed_files) > 0)
        => /\ "All files at target loudness" \notin printed
           /\ "All files ready for stage performance!" \notin printed

\* C3: whatever the outcome of the apply-pass invocation (status zero,
\* non-zero, or the tool not starting), normalize_audio returns a boolean and
\* nothing is raised past it: the run is never ended by an exception from
\* the apply pass, and a file whose apply pass was invoked is classified
\* successful or failed.
C3_ApplyPassNeverRaises ==
    /\ crash_at # "normalize_audio:144"
    /\ \A c \in calls :
          (c.pass = "normalize" /\ pc \in {"loop", "summary", "done"})
             => \/ <<c.file, "successful">> \in outcome
                \/ <<c.file, "failed">> \in outcome

\* C4: no result of the analysis pass aborts the run: whatever the
\* diagnostic stream holds, and when the tool does not start, the run goes on
\* to the apply pass of the file and is never ended by an exception.
C4_AnalysisNeverAborts ==
    [][ (pc = "loop" /\ CurrentOutput \notin fs_out)
          => /\ pc' = "normalize"
             /\ exit_status' = -1
             /\ crash_at' = "none" ]_vars

\* C5: check_file_compliance on a non-null record: compliant with no issue
\* when |lufs + 16.0| <= 0.5 and peak <= -1.0; one loudness issue when only
\* the loudness is out; one peak issue when only the peak is over; the two
\* issues, loudness first, when both are; and the verdict is true exactly
\* when there is no issue.
C5_ComplianceCases ==
    (verdict # Pending /\ rec # None) =>
        LET lufs_ok == Abs(rec.lufs + 160) <= 5
            peak_ok == rec.peak <= -10
        IN  /\ (lufs_ok /\ peak_ok) => (verdict.ok /\ verdict.issues = <<>>)
            /\ (~lufs_ok /\ peak_ok)
                 => (~verdict.ok /\ verdict.issues = <<LufsIssue(rec.lufs)>>)
            /\ (lufs_ok /\ ~peak_ok)
                 => (~verdict.ok /\ verdict.issues = <<PeakIssue(rec.peak)>>)
            /\ (~lufs_ok /\ ~peak_ok)
                 => (~verdict.ok
                     /\ verdict.issues = <<LufsIssue(rec.lufs), PeakIssue(rec.peak)>>)
            /\ verdict.ok <=> (Len(verdict.issues) = 0)

\* a record on both boundaries (-16.5 LUFS, -1.0 dBTP) found compliant
C5_Witness ==
    /\ verdict # Pending /\ rec # None
    /\ rec.lufs = -165 /\ rec.peak = -10
    /\ verdict.ok /\ verdict.issues = <<>>

\* C6: the process ends with status 0 when it reaches the summary and when
\* no candidate file is found, with status 1 when the root directory is
\* missing, the argument's extension is unsupported or the argument matches
\* no file; no per-file failure changes the exit status, so status 1 has no
\* other cause.
C6_ExitStatus ==
    /\ pc \in {"done", "exit_no_files"} => exit_status = 0
    /\ pc \in {"exit_missing_dir", "exit_bad_extension", "exit_not_found"}
          => exit_status = 1
    /\ exit_status = 1
          => pc \in {"exit_missing_dir", "exit_bad_extension", "exit_not_found"}

\* the text is free text, one well-formed object from a to b, free text
OneObjectAt(s, a, b) ==
    /\ a < b
    /\ s[a] = "{"
    /\ s[b] = "}"
    /\ \A k \in 1..Len(s) :
          IF k < a \/ k > b THEN s[k] \in {"t", NL}
          ELSE IF k > a /\ k < b THEN s[k] \in {"i:-16.0", NL}
          ELSE TRUE

C8_SingleFileMode ==
    (Len(argv) > 0 /\ pc \in {"loop", "normalize", "summary", "done"})
        => /\ Len(audio_files) <= 1
           /\ \A k \in 1..Len(audio_files) :
                 \/ audio_files[k].name = Basename(argv[1])
                 \/ EndsWith(FullStr(SourceDir, audio_files[k]), argv[1])

\* the invocation of either mode carries -ar 44100 -b:a 192k -y
FixedEncoding(cmd) == cmd.ar = 44100 /\ cmd.ba = 192 /\ cmd.y

C10_LeftOutputIsSkippedLater ==
    \A f \in left_output :
        /\ create_output_path(f) \in fs_out
        /\ \/ <<f, "failed">> \in outcome
           \/ /\ CallsFor(f) = {}
              /\ \A o \in outcome : o[1] = f => o[2] = "skipped"
              /\ (pc \in {"summary", "done"} /\ InLoop(f)) => <<f, "skipped">> \in outcome

\* a file failed in the first run, with a file left at its output path, and
\* was skipped in the second
C10_Witness ==
    /\ run = 2 /\ pc = "done"
    /\ \E f \in left_output :
          /\ <<f, "failed">> \in prev_outcome
          /\ <<f, "skipped">> \in outcome
          /\ CallsFor(f) = {}

----------------------------------------------------------------------------
(* Either program, as the command line selects it *)

InitPrograms == InitNormalizer \/ InitVerifier

NextPrograms ==
    \/ program = "normalize_audio.py" /\ Next
    \/ program = "verify_audio.py" /\ NextVerifier

SpecPrograms == InitPrograms /\ [][NextPrograms]_vars

\* the counters of the program that runs, and their sum
Counters ==
    IF program = "normalize_audio.py"
    THEN <<successful, skipped, failed>>
    ELSE <<compliant_files, Len(non_compliant_files), Len(failed_files)>>
CounterSum == Counters[1] + Counters[2] + Counters[3]

\* the number of times file f has been classified in this run
TimesClassified(f) ==
    IF program = "normalize_audio.py"
    THEN Cardinality({ o \in outcome : o[1] = f })
    ELSE Cardinality({ k \in 1..Len(failed_files) : failed_files[k] = f })
         + Cardinality({ k \in 1..Len(non_compliant_files) :
                            non_compliant_files[k][1] = f })

\* C11: in both programs the counters partition the files processed: while
\* the loop is at its i-th file the sum of the three counters is i - 1 (the
\* files before it were classified once each), at the summary the sum is
\* the total number of files and every file of the list was classified
\* exactly once, and within a run no step changes a counter other than by
\* adding one to exactly one of them.
C11_CounterPartition ==
    /\ []( /\ pc \in {"loop", "normalize"} => CounterSum = idx - 1
           /\ pc \in {"summary", "done"}
                => /\ CounterSum = Len(audio_files)
                   /\ idx = Len(audio_files)
                   /\ \A k \in 1..Len(audio_files) :
                         TimesClassified(audio_files[k]) <= 1
                   /\ program = "normalize_audio.py"
                        => \A k \in 1..Len(audio_files) :
                              TimesClassified(audio_files[k]) = 1
                   /\ program = "verify_audio.py"
                        => compliant_files =
                             Cardinality({ k \in 1..Len(audio_files) :
                                             TimesClassified(audio_files[k]) = 0 }) )
    /\ [][ run' = run
             => \/ Counters' = Counters
                \/ /\ CounterSum' = CounterSum + 1
                   /\ \A j \in 1..3 : Counters'[j] \in {Counters[j], Counters[j] + 1} ]_vars

\* a normalizer run over two files that reached the summary with one file
\* skipped and one failed
C11_Witness ==
    /\ program = "normalize_audio.py" /\ pc = "done"
    /\ Len(audio_files) = 2
    /\ skipped = 1 /\ failed = 1 /\ successful = 0

====
